---- MODULE Spec2Model ----
(***************************************************************************)
(* The reversed-C transpiler of Ctranspiler.c: the tokenizer as a pure     *)
(* operator over character sequences, and the recursive-descent parser as  *)
(* a state machine with an explicit call stack.  A C string is a sequence  *)
(* of one-character strings; reading at or past its end yields NUL.        *)
(***************************************************************************)
EXTENDS Integers, Sequences, FiniteSets, TLC

\* ------------------------------------------------------------------------
\* Characters (ctype.h in the "C" locale)
\* ------------------------------------------------------------------------
NUL == "NUL"

Cat(a, b) == a \o b

CharAt(s, i) == IF i >= 1 /\ i <= Len(s) THEN s[i] ELSE NUL

isspace(c) == c \in {" ", "\t", "\n", "\r", "\f"}

isdigit(c) == c \in {"0", "1", "2", "3", "4", "5", "6", "7", "8", "9"}

isalpha(c) ==
  c \in {"a", "b", "c", "d", "e", "f", "g", "h", "i", "j", "k", "l", "m",
         "n", "o", "p", "q", "r", "s", "t", "u", "v", "w", "x", "y", "z",
         "A", "B", "C", "D", "E", "F", "G", "H", "I", "J", "K", "L", "M",
         "N", "O", "P", "Q", "R", "S", "T", "U", "V", "W", "X", "Y", "Z"}

isalnum(c) == isalpha(c) \/ isdigit(c)

\* ------------------------------------------------------------------------
\* Tokenizer
\* ------------------------------------------------------------------------
TokenType ==
  {"KEYWORD", "IDENTIFIER", "NUMBER", "LPAREN", "RPAREN", "LBRACE", "RBRACE",
   "EQUALS", "SEMICOLON", "COMMA", "PREPROCESSOR", "EOF", "UNKNOWN"}

keywords ==
  { <<"i", "n", "t">>, <<"v", "o", "i", "d">>, <<"c", "h", "a", "r">>,
    <<"f", "o", "r">>, <<"w", "h", "i", "l", "e">>, <<"i", "f">>,
    <<"e", "l", "s", "e">>, <<"r", "e", "t", "u", "r", "n">> }

is_keyword(str) == str \in keywords

\* Faulty variant of add_token: strncpy is given len - 1, so the lexeme
\* lacks its last character.
add_token_short(list, type, source, start, len) ==
  Append(list, [type |-> type, lexeme |-> SubSeq(source, start, start + len - 2)])

\* strncpy of len characters starting at `start`, then the list grows by one.
add_token(list, type, source, start, len) ==
  Append(list, [type |-> type, lexeme |-> SubSeq(source, start, start + len - 1)])

\* while (*current != '\n' && *current != '\0') current++;
RECURSIVE SkipLine(_, _)
SkipLine(source, current) ==
  IF CharAt(source, current) # "\n" /\ CharAt(source, current) # NUL
    THEN SkipLine(source, current + 1)
    ELSE current

\* while (isdigit(*current)) current++;
RECURSIVE ScanDigits(_, _)
ScanDigits(source, current) ==
  IF isdigit(CharAt(source, current))
    THEN ScanDigits(source, current + 1)
    ELSE current

\* while (isalnum(*current) || *current == '_') current++;
RECURSIVE ScanWord(_, _)
ScanWord(source, current) ==
  IF isalnum(CharAt(source, current)) \/ CharAt(source, current) = "_"
    THEN ScanWord(source, current + 1)
    ELSE current

\* The body of a string literal, entered after the opening quote; the result
\* is the position after the closing quote, or of the NUL when unterminated.
RECURSIVE ScanString(_, _)
ScanString(source, current) ==
  LET c == CharAt(source, current) IN
  IF c # "\"" /\ c # NUL
    THEN IF c = "\\" /\ CharAt(source, current + 1) # NUL
           THEN ScanString(source, current + 2)
           ELSE ScanString(source, current + 1)
    ELSE IF c = "\"" THEN current + 1 ELSE current

\* Which branch of tokenize's loop body is taken at a character c followed
\* by c1: the tests in the order of the code, first match wins.
token_rule(c, c1) ==
  IF c = NUL THEN "end"
  ELSE IF isspace(c) THEN "space"
  ELSE IF c = "/" /\ c1 = "/" THEN "comment"
  ELSE IF c = "#" THEN "PREPROCESSOR"
  ELSE IF c \in {">", "<", "=", "!"} /\ c1 = "=" THEN "operator2"
  ELSE IF c \in {">", "<"} THEN "operator1"
  ELSE IF c = "(" THEN "LPAREN"
  ELSE IF c = ")" THEN "RPAREN"
  ELSE IF c = "{" THEN "LBRACE"
  ELSE IF c = "}" THEN "RBRACE"
  ELSE IF c = "=" THEN "EQUALS"
  ELSE IF c = ";" THEN "SEMICOLON"
  ELSE IF c = "," THEN "COMMA"
  ELSE IF isdigit(c) THEN "NUMBER"
  ELSE IF isalpha(c) \/ c = "_" THEN "word"
  ELSE IF c = "\"" THEN "string"
  ELSE "UNKNOWN"

\* Where `current` stands when the branch `rule` entered at `current` is done.
token_end(source, current, rule) ==
  CASE rule \in {"comment", "PREPROCESSOR"} -> SkipLine(source, current)
    [] rule = "operator2" -> current + 2
    [] rule = "NUMBER" -> ScanDigits(source, current)
    [] rule = "word" -> ScanWord(source, current)
    [] rule = "string" -> ScanString(source, current + 1)
    [] OTHER -> current + 1

\* The type of the token the branch adds; temp is the text it matched.
token_type(rule, temp) ==
  CASE rule \in {"operator2", "operator1", "string"} -> "IDENTIFIER"
    [] rule = "word" -> IF is_keyword(temp) THEN "KEYWORD" ELSE "IDENTIFIER"
    [] OTHER -> rule

\* The while (*current != '\0') loop of tokenize.
RECURSIVE tokenize_loop(_, _, _)
tokenize_loop(source, current, token_list) ==
  LET rule == token_rule(CharAt(source, current), CharAt(source, current + 1))
      e == token_end(source, current, rule)
  IN
  IF rule = "end" THEN token_list
  ELSE IF rule \in {"space", "comment"}
    THEN tokenize_loop(source, e, token_list)
    ELSE tokenize_loop(source, e,
           add_token(token_list, token_type(rule, SubSeq(source, current, e - 1)),
                     source, current, e - current))

EOF_LEXEME == <<"E", "O", "F">>

\* Faulty variant of tokenize: the sentinel is appended only to a list that
\* already holds a token.
tokenize_sentinel_if_any(source) ==
  LET token_list == tokenize_loop(source, 1, <<>>) IN
  IF token_list = <<>>
    THEN token_list
    ELSE add_token(token_list, "EOF", EOF_LEXEME, 1, 3)

tokenize(source) ==
  add_token(tokenize_loop(source, 1, <<>>), "EOF", EOF_LEXEME, 1, 3)

\* ------------------------------------------------------------------------
\* State
\* ------------------------------------------------------------------------
VARIABLES
  source,             \* main: the NUL-terminated buffer read_file returned
  tokens,             \* Parser.tokens (a TokenList; tokens[i + 1] is C's tokens[i])
  current_token_pos,  \* Parser.current_token_pos (0-based)
  output,             \* Parser.output
  stack,              \* the C call stack: main, parse, parse_* and slurp frames
  ret,                \* the value the last returned function handed to its caller
  result,             \* main's c_code once parse has returned ("running" before)
  last,               \* the step just taken: which operation, and whether it succeeded
  copied              \* the token text (%s arguments) written to output so far

vars ==
  <<source, tokens, current_token_pos, output, stack, ret, result, last, copied>>

\* Sizes of the stack buffers.
CONDITION_SIZE == 256
LINE_SIZE == 1024
ARGS_BUFFER_SIZE == 1024

NoToken == [type |-> "UNKNOWN", lexeme |-> <<>>]

\* One activation record.  buf is the function's char buffer (condition, line,
\* args, args_buffer), size its sizeof; t1, t2, t3 are its saved Token locals;
\* start is start_token_pos for a reversed call and the cursor on entry for
\* the other functions; level is paren_level; end_type is slurp's argument.
Frame(fn, pc, size, end_type) ==
  [fn |-> fn, pc |-> pc, buf |-> <<>>, size |-> size, t1 |-> NoToken,
   t2 |-> NoToken, t3 |-> NoToken, start |-> current_token_pos, level |-> 0,
   end_type |-> end_type]

Depth == Len(stack)

Top == stack[Depth]

At(fn, pc) == Depth > 0 /\ Top.fn = fn /\ Top.pc = pc

Pop == SubSeq(stack, 1, Depth - 1)

\* The top frame with some of its fields replaced.
With(f) == [stack EXCEPT ![Depth] = f]

Goto(pc) == With([Top EXCEPT !.pc = pc])

Call(retpc, frame) == Append(Goto(retpc), frame)

Op(op, ok, what) == [op |-> op, ok |-> ok, what |-> what]

\* ------------------------------------------------------------------------
\* Parser primitives
\* ------------------------------------------------------------------------
count == Len(tokens)

current_token == tokens[current_token_pos + 1]

peek_at(offset) ==
  IF current_token_pos + offset >= count
    THEN tokens[count]
    ELSE tokens[current_token_pos + offset + 1]

\* The cursor after advance(p).
advance ==
  IF current_token_pos < count - 1
    THEN current_token_pos + 1
    ELSE current_token_pos

match(type) == current_token.type = type

\* Faulty variant of consume: success is reported without advancing.
consume_without_advance(type) ==
  IF match(type)
    THEN [ok |-> TRUE, pos |-> current_token_pos]
    ELSE [ok |-> FALSE, pos |-> current_token_pos]

\* consume(p, type, msg): the returned flag and the cursor it leaves.
consume(type) ==
  IF match(type)
    THEN [ok |-> TRUE, pos |-> advance]
    ELSE [ok |-> FALSE, pos |-> current_token_pos]

Min(a, b) == IF a < b THEN a ELSE b

\* strncat(buffer, s, n): at most n characters of s are appended.
strncat(buffer, s, n) == buffer \o SubSeq(s, 1, Min(n, Len(s)))

\* One iteration of slurp's loop body on `buffer` of `buffer_size` bytes.
slurp_append(buffer, buffer_size) ==
  LET b1 == IF Len(buffer) > 0
              THEN strncat(buffer, <<" ">>, buffer_size - Len(buffer) - 1)
              ELSE buffer
  IN strncat(b1, current_token.lexeme, buffer_size - Len(b1) - 1)

\* Faulty variant of paren_scan: an inner '(' does not raise paren_level, so
\* the scan stops after the first ')'.
RECURSIVE paren_scan_flat(_, _)
paren_scan_flat(paren_level, offset) ==
  IF paren_level > 0 /\ current_token_pos + offset < count
    THEN LET t == peek_at(offset)
             l2 == IF t.type = "RPAREN" THEN paren_level - 1 ELSE paren_level
         IN paren_scan_flat(l2, offset + 1)
    ELSE offset

\* get_offset_after_paren's loop.
RECURSIVE paren_scan(_, _)
paren_scan(paren_level, offset) ==
  IF paren_level > 0 /\ current_token_pos + offset < count
    THEN LET t == peek_at(offset)
             l1 == IF t.type = "LPAREN" THEN paren_level + 1 ELSE paren_level
             l2 == IF t.type = "RPAREN" THEN l1 - 1 ELSE l1
         IN paren_scan(l2, offset + 1)
    ELSE offset

get_offset_after_paren ==
  IF ~match("LPAREN") THEN 0 ELSE paren_scan(1, 1)

\* ------------------------------------------------------------------------
\* Emitted text
\* ------------------------------------------------------------------------
INDENT == <<" ", " ", " ", " ">>

NL == <<"\n">>

\* sprintf(temp_buffer, "    <kw> (%s) {\n", condition)
control_head(kw, condition) ==
  INDENT \o kw \o <<" ", "(">> \o condition \o <<")", " ", "{", "\n">>

\* "    }\n"
CLOSE_BLOCK == INDENT \o <<"}", "\n">>

\* "    else {\n"
ELSE_HEAD == INDENT \o <<"e", "l", "s", "e", " ", "{", "\n">>

\* "}\n\n"
CLOSE_FUNCTION == <<"}", "\n", "\n">>

\* sprintf(func_header, "%s %s(%s) {\n", return_type, func_name, args)
function_header(return_type, func_name, args) ==
  return_type \o <<" ">> \o func_name \o <<"(">> \o args \o <<")", " ", "{", "\n">>

\* sprintf(temp_buffer, "    %s %s = %s;\n", type, name, value)
declaration_text(type, name, value) ==
  INDENT \o type \o <<" ">> \o name \o <<" ", "=", " ">> \o value \o <<";", "\n">>

\* sprintf(final_call, "    %s(%s);\n", func_name, args_buffer)
call_text(func_name, args_buffer) ==
  INDENT \o func_name \o <<"(">> \o args_buffer \o <<")", ";", "\n">>

\* append_output(p, "    "); append_output(p, line); append_output(p, ";\n");
passthrough_text(line) == INDENT \o line \o <<";", "\n">>

\* append_output: strcat onto the grown buffer.
append_output(out, str) == out \o str

\* ------------------------------------------------------------------------
\* Steps
\* ------------------------------------------------------------------------
Step(pos, out, stk, r, l, cp) ==
  /\ current_token_pos' = pos
  /\ output' = out
  /\ stack' = stk
  /\ ret' = r
  /\ last' = l
  /\ copied' = cp
  /\ UNCHANGED <<source, tokens, result>>

\* if (!consume(p, type, msg)) return 0;  and, on success, what follows it up
\* to the next consume, call or loop test: the frames and the output it leaves.
Expect(type, okstack, okret, okout, okcopied) ==
  LET c == consume(type) IN
  IF c.ok
    THEN Step(c.pos, okout, okstack, okret, Op("consume", TRUE, type), okcopied)
    ELSE Step(c.pos, output, Pop, "0", Op("consume", FALSE, type), copied)

\* The test of a body loop: while (!match(RBRACE) && !match(EOF)).
in_body == ~match("RBRACE") /\ ~match("EOF")

\* if (!parse_statement(p)) return 0;  the call.
BodyCall(fn, pc, retpc) ==
  /\ At(fn, pc)
  /\ in_body
  /\ Step(current_token_pos, output,
          Call(retpc, Frame("parse_statement", "dispatch", LINE_SIZE, "SEMICOLON")),
          "none", Op("call", TRUE, "parse_statement"), copied)

\* Faulty variant of BodyRet: the value parse_statement returned is ignored.
BodyRet_unchecked(fn, retpc, pc) ==
  /\ At(fn, retpc)
  /\ Step(current_token_pos, output, Goto(pc), "none",
          Op("loop", TRUE, fn), copied)

\* if (!parse_statement(p)) return 0;  the test of what the call returned.
BodyRet(fn, retpc, pc) ==
  /\ At(fn, retpc)
  /\ IF ret = "0"
       THEN Step(current_token_pos, output, Pop, "0",
                 Op("return", FALSE, fn), copied)
       ELSE Step(current_token_pos, output, Goto(pc), "none",
                 Op("loop", TRUE, fn), copied)

\* --- slurp_tokens_until -------------------------------------------------
\* The buffer is the caller's: the frame below.
slurp_token ==
  /\ At("slurp_tokens_until", "loop")
  /\ ~match(Top.end_type) /\ ~match("EOF")
  /\ LET caller == stack[Depth - 1]
         buffer == slurp_append(caller.buf, caller.size)
     IN Step(advance, output,
             [stack EXCEPT ![Depth - 1] = [caller EXCEPT !.buf = buffer]],
             "none", Op("advance", TRUE, "slurp_tokens_until"), copied)

slurp_return ==
  /\ At("slurp_tokens_until", "loop")
  /\ ~(~match(Top.end_type) /\ ~match("EOF"))
  /\ Step(current_token_pos, output, Pop, "none",
          Op("return", TRUE, "slurp_tokens_until"), copied)

slurp_tokens_until == slurp_token \/ slurp_return

\* --- parse_for_loop, parse_while_loop, parse_if_statement: the head ----
\* consume '(' and enter slurp_tokens_until(p, TOKEN_RPAREN, condition, 256)
control_lparen(fn) ==
  /\ At(fn, "lparen")
  /\ Expect("LPAREN",
            Call("rparen", Frame("slurp_tokens_until", "loop", 0, "RPAREN")),
            "none", output, copied)

control_rparen(fn) ==
  /\ At(fn, "rparen")
  /\ Expect("RPAREN", Goto("keyword"), "none", output, copied)

\* consume the KEYWORD, then sprintf and append_output of the head
control_keyword(fn, kw) ==
  /\ At(fn, "keyword")
  /\ Expect("KEYWORD", Goto("lbrace"), "none",
            append_output(output, control_head(kw, Top.buf)),
            copied \o Top.buf)

control_lbrace(fn) ==
  /\ At(fn, "lbrace")
  /\ Expect("LBRACE", Goto("body"), "none", output, copied)

\* --- parse_for_loop -----------------------------------------------------
for_rbrace ==
  /\ At("parse_for_loop", "body")
  /\ ~in_body
  /\ Expect("RBRACE", Pop, "1", append_output(output, CLOSE_BLOCK), copied)

parse_for_loop ==
  \/ control_lparen("parse_for_loop")
  \/ control_rparen("parse_for_loop")
  \/ control_keyword("parse_for_loop", <<"f", "o", "r">>)
  \/ control_lbrace("parse_for_loop")
  \/ BodyCall("parse_for_loop", "body", "body_ret")
  \/ BodyRet("parse_for_loop", "body_ret", "body")
  \/ for_rbrace

\* Faulty variant of while_rbrace: the closing "    }\n" is not appended.
while_rbrace_unclosed ==
  /\ At("parse_while_loop", "body")
  /\ ~in_body
  /\ Expect("RBRACE", Pop, "1", output, copied)

\* --- parse_while_loop ---------------------------------------------------
while_rbrace ==
  /\ At("parse_while_loop", "body")
  /\ ~in_body
  /\ Expect("RBRACE", Pop, "1", append_output(output, CLOSE_BLOCK), copied)

parse_while_loop ==
  \/ control_lparen("parse_while_loop")
  \/ control_rparen("parse_while_loop")
  \/ control_keyword("parse_while_loop", <<"w", "h", "i", "l", "e">>)
  \/ control_lbrace("parse_while_loop")
  \/ BodyCall("parse_while_loop", "body", "body_ret")
  \/ BodyRet("parse_while_loop", "body_ret", "body")
  \/ while_rbrace

\* --- parse_if_statement -------------------------------------------------
if_rbrace ==
  /\ At("parse_if_statement", "body")
  /\ ~in_body
  /\ Expect("RBRACE", Goto("else"), "none",
            append_output(output, CLOSE_BLOCK), copied)

is_else == match("KEYWORD") /\ current_token.lexeme = <<"e", "l", "s", "e">>

\* advance(p); append_output(p, "    else {\n");
if_else ==
  /\ At("parse_if_statement", "else")
  /\ is_else
  /\ Step(advance, append_output(output, ELSE_HEAD), Goto("else_lbrace"),
          "none", Op("advance", TRUE, "else"), copied)

if_no_else ==
  /\ At("parse_if_statement", "else")
  /\ ~is_else
  /\ Step(current_token_pos, output, Pop, "1",
          Op("return", TRUE, "parse_if_statement"), copied)

if_else_lbrace ==
  /\ At("parse_if_statement", "else_lbrace")
  /\ Expect("LBRACE", Goto("else_body"), "none", output, copied)

if_else_rbrace ==
  /\ At("parse_if_statement", "else_body")
  /\ ~in_body
  /\ Expect("RBRACE", Pop, "1", append_output(output, CLOSE_BLOCK), copied)

parse_if_statement ==
  \/ control_lparen("parse_if_statement")
  \/ control_rparen("parse_if_statement")
  \/ control_keyword("parse_if_statement", <<"i", "f">>)
  \/ control_lbrace("parse_if_statement")
  \/ BodyCall("parse_if_statement", "body", "body_ret")
  \/ BodyRet("parse_if_statement", "body_ret", "body")
  \/ if_rbrace
  \/ if_else
  \/ if_no_else
  \/ if_else_lbrace
  \/ BodyCall("parse_if_statement", "else_body", "else_body_ret")
  \/ BodyRet("parse_if_statement", "else_body_ret", "else_body")
  \/ if_else_rbrace

\* --- parse_variable_declaration ------------------------------------------
\* Token value = advance(p);
declaration_value ==
  /\ At("parse_variable_declaration", "value")
  /\ Step(advance, output,
          With([Top EXCEPT !.pc = "equals", !.t1 = current_token]),
          "none", Op("advance", TRUE, "value"), copied)

declaration_equals ==
  /\ At("parse_variable_declaration", "equals")
  /\ Expect("EQUALS", Goto("name"), "none", output, copied)

\* Token name = current_token(p); consume IDENTIFIER
declaration_name ==
  /\ At("parse_variable_declaration", "name")
  /\ Expect("IDENTIFIER",
            With([Top EXCEPT !.pc = "type", !.t2 = current_token]),
            "none", output, copied)

\* Token type = current_token(p); consume KEYWORD
declaration_type ==
  /\ At("parse_variable_declaration", "type")
  /\ Expect("KEYWORD",
            With([Top EXCEPT !.pc = "semicolon", !.t3 = current_token]),
            "none", output, copied)

declaration_semicolon ==
  /\ At("parse_variable_declaration", "semicolon")
  /\ Expect("SEMICOLON", Pop, "1",
            append_output(output,
              declaration_text(Top.t3.lexeme, Top.t2.lexeme, Top.t1.lexeme)),
            copied \o Top.t3.lexeme \o Top.t2.lexeme \o Top.t1.lexeme)

parse_variable_declaration ==
  \/ declaration_value
  \/ declaration_equals
  \/ declaration_name
  \/ declaration_type
  \/ declaration_semicolon

\* --- parse_reversed_function_call ----------------------------------------
\* consume '('; start_token_pos = p->current_token_pos; paren_level = 1;
call_lparen ==
  /\ At("parse_reversed_function_call", "lparen")
  /\ Expect("LPAREN",
            With([Top EXCEPT !.pc = "scan", !.level = 1,
                             !.start = consume("LPAREN").pos]),
            "none", output, copied)

\* Faulty variant of call_scan: the advance at the end of the loop body is
\* missing.
call_scan_without_advance ==
  /\ At("parse_reversed_function_call", "scan")
  /\ Top.level > 0 /\ ~match("EOF")
  /\ LET l1 == IF match("LPAREN") THEN Top.level + 1 ELSE Top.level
         l2 == IF match("RPAREN") THEN l1 - 1 ELSE l1
     IN Step(current_token_pos, output, With([Top EXCEPT !.level = l2]),
             "none", Op("scan", TRUE, "scan"), copied)

\* One iteration of while (paren_level > 0 && !match(p, TOKEN_EOF)).
call_scan ==
  /\ At("parse_reversed_function_call", "scan")
  /\ Top.level > 0 /\ ~match("EOF")
  /\ LET l1 == IF match("LPAREN") THEN Top.level + 1 ELSE Top.level
         l2 == IF match("RPAREN") THEN l1 - 1 ELSE l1
     IN Step(IF l2 > 0 THEN advance ELSE current_token_pos, output,
             With([Top EXCEPT !.level = l2]), "none",
             Op(IF l2 > 0 THEN "advance" ELSE "scan", TRUE, "scan"), copied)

\* Faulty variant of join_args: the absolute index i + 1 is handed to
\* peek_at as if it were an offset from the cursor.
RECURSIVE join_args_absolute(_, _, _)
join_args_absolute(i, end_token_pos, args_buffer) ==
  IF i < end_token_pos
    THEN LET b1 == strncat(args_buffer, tokens[i + 1].lexeme,
                           ARGS_BUFFER_SIZE - Len(args_buffer) - 1)
             b2 == IF i < end_token_pos - 1 /\ peek_at(i + 1).type # "COMMA"
                     THEN strncat(b1, <<" ">>, ARGS_BUFFER_SIZE - Len(b1) - 1)
                     ELSE b1
         IN join_args_absolute(i + 1, end_token_pos, b2)
    ELSE args_buffer

\* The for loop that fills args_buffer; end_token_pos is the cursor.
RECURSIVE join_args(_, _, _)
join_args(i, end_token_pos, args_buffer) ==
  IF i < end_token_pos
    THEN LET b1 == strncat(args_buffer, tokens[i + 1].lexeme,
                           ARGS_BUFFER_SIZE - Len(args_buffer) - 1)
             b2 == IF i < end_token_pos - 1
                      /\ peek_at(i - current_token_pos + 1).type # "COMMA"
                     THEN strncat(b1, <<" ">>, ARGS_BUFFER_SIZE - Len(b1) - 1)
                     ELSE b1
         IN join_args(i + 1, end_token_pos, b2)
    ELSE args_buffer

\* The scan is over: fill args_buffer, then consume ')'.
call_rparen ==
  /\ At("parse_reversed_function_call", "scan")
  /\ ~(Top.level > 0 /\ ~match("EOF"))
  /\ Expect("RPAREN",
            With([Top EXCEPT !.pc = "name",
                             !.buf = join_args(Top.start, current_token_pos, <<>>)]),
            "none", output, copied)

\* Token func_name = current_token(p); consume IDENTIFIER
call_name ==
  /\ At("parse_reversed_function_call", "name")
  /\ Expect("IDENTIFIER",
            With([Top EXCEPT !.pc = "semicolon", !.t1 = current_token]),
            "none", output, copied)

call_semicolon ==
  /\ At("parse_reversed_function_call", "semicolon")
  /\ Expect("SEMICOLON", Pop, "1",
            append_output(output, call_text(Top.t1.lexeme, Top.buf)),
            copied \o Top.t1.lexeme \o Top.buf)

parse_reversed_function_call ==
  \/ call_lparen
  \/ call_scan
  \/ call_rparen
  \/ call_name
  \/ call_semicolon

\* --- parse_statement -----------------------------------------------------
\* Which branch parse_statement takes at the cursor: the parser it calls,
\* "passthrough", or "error".
statement_kind ==
  LET offset == get_offset_after_paren
      token_after_paren == peek_at(offset)
      fallthrough ==
        IF match("KEYWORD") \/ match("IDENTIFIER") THEN "passthrough" ELSE "error"
  IN
  IF match("NUMBER") THEN "parse_variable_declaration"
  ELSE IF match("LPAREN")
    THEN IF token_after_paren.type = "KEYWORD"
              /\ token_after_paren.lexeme = <<"f", "o", "r">>
           THEN "parse_for_loop"
         ELSE IF token_after_paren.type = "KEYWORD"
              /\ token_after_paren.lexeme = <<"w", "h", "i", "l", "e">>
           THEN "parse_while_loop"
         ELSE IF token_after_paren.type = "KEYWORD"
              /\ token_after_paren.lexeme = <<"i", "f">>
           THEN "parse_if_statement"
         ELSE IF token_after_paren.type = "IDENTIFIER"
              /\ peek_at(offset + 1).type = "SEMICOLON"
           THEN "parse_reversed_function_call"
         ELSE fallthrough
  ELSE fallthrough

statement_dispatch ==
  /\ At("parse_statement", "dispatch")
  /\ LET kind == statement_kind IN
     IF kind = "error"
       THEN Step(current_token_pos, output, Pop, "0",
                 Op("dispatch", FALSE, kind), copied)
     ELSE IF kind = "passthrough"
       THEN Step(current_token_pos, output,
                 Call("semicolon",
                      Frame("slurp_tokens_until", "loop", 0, "SEMICOLON")),
                 "none", Op("dispatch", TRUE, kind), copied)
     ELSE IF kind = "parse_variable_declaration"
       THEN Step(current_token_pos, output,
                 Call("return", Frame(kind, "value", 0, "EOF")),
                 "none", Op("dispatch", TRUE, kind), copied)
     ELSE IF kind = "parse_reversed_function_call"
       THEN Step(current_token_pos, output,
                 Call("return", Frame(kind, "lparen", ARGS_BUFFER_SIZE, "EOF")),
                 "none", Op("dispatch", TRUE, kind), copied)
     ELSE Step(current_token_pos, output,
               Call("return", Frame(kind, "lparen", CONDITION_SIZE, "EOF")),
               "none", Op("dispatch", TRUE, kind), copied)

\* return parse_...(p);
statement_return ==
  /\ At("parse_statement", "return")
  /\ Step(current_token_pos, output, Pop, ret,
          Op("return", ret = "1", "parse_statement"), copied)

\* if (consume(p, TOKEN_SEMICOLON, ...)) { append "    ", line, ";\n"; return 1; } return 0;
statement_semicolon ==
  /\ At("parse_statement", "semicolon")
  /\ Expect("SEMICOLON", Pop, "1",
            append_output(output, passthrough_text(Top.buf)),
            copied \o Top.buf)

parse_statement ==
  \/ statement_dispatch
  \/ statement_return
  \/ statement_semicolon

\* --- parse_function_declaration -----------------------------------------
function_lparen ==
  /\ At("parse_function_declaration", "lparen")
  /\ Expect("LPAREN", Goto("args"), "none", output, copied)

\* The test of the parameter loop: while (!match(RPAREN) && !match(EOF)).
in_args == ~match("RPAREN") /\ ~match("EOF")

\* if (strlen(args) > 0) strcat(args, ", "); arg_name = current_token(p);
\* consume IDENTIFIER
function_arg_name ==
  /\ At("parse_function_declaration", "args")
  /\ in_args
  /\ Expect("IDENTIFIER",
            With([Top EXCEPT !.pc = "arg_type", !.t1 = current_token,
                             !.buf = IF Len(Top.buf) > 0
                                       THEN Top.buf \o <<",", " ">>
                                       ELSE Top.buf]),
            "none", output, copied)

\* arg_type = current_token(p); consume KEYWORD; strcat type, " ", name
function_arg_type ==
  /\ At("parse_function_declaration", "arg_type")
  /\ Expect("KEYWORD",
            With([Top EXCEPT !.pc = "arg_sep",
                             !.buf = Top.buf \o current_token.lexeme \o <<" ">>
                                       \o Top.t1.lexeme]),
            "none", output, copied)

\* if (match(COMMA)) advance(p); else if (!match(RPAREN)) { error; return 0; }
function_arg_sep ==
  /\ At("parse_function_declaration", "arg_sep")
  /\ IF match("COMMA")
       THEN Step(advance, output, Goto("args"), "none",
                 Op("advance", TRUE, "comma"), copied)
     ELSE IF ~match("RPAREN")
       THEN Step(current_token_pos, output, Pop, "0",
                 Op("error", FALSE, "arg_sep"), copied)
     ELSE Step(current_token_pos, output, Goto("args"), "none",
               Op("loop", TRUE, "arg_sep"), copied)

function_rparen ==
  /\ At("parse_function_declaration", "args")
  /\ ~in_args
  /\ Expect("RPAREN", Goto("name"), "none", output, copied)

\* func_name = current_token(p); consume IDENTIFIER
function_name ==
  /\ At("parse_function_declaration", "name")
  /\ Expect("IDENTIFIER", With([Top EXCEPT !.pc = "return_type", !.t2 = current_token]),
            "none", output, copied)

\* return_type = current_token(p); consume KEYWORD; sprintf and append the header
function_return_type ==
  /\ At("parse_function_declaration", "return_type")
  /\ Expect("KEYWORD", Goto("lbrace"), "none",
            append_output(output,
              function_header(current_token.lexeme, Top.t2.lexeme, Top.buf)),
            copied \o current_token.lexeme \o Top.t2.lexeme \o Top.buf)

function_lbrace ==
  /\ At("parse_function_declaration", "lbrace")
  /\ Expect("LBRACE", Goto("body"), "none", output, copied)

function_rbrace ==
  /\ At("parse_function_declaration", "body")
  /\ ~in_body
  /\ Expect("RBRACE", Pop, "1", append_output(output, CLOSE_FUNCTION), copied)

parse_function_declaration ==
  \/ function_lparen
  \/ function_arg_name
  \/ function_arg_type
  \/ function_arg_sep
  \/ function_rparen
  \/ function_name
  \/ function_return_type
  \/ function_lbrace
  \/ BodyCall("parse_function_declaration", "body", "body_ret")
  \/ BodyRet("parse_function_declaration", "body_ret", "body")
  \/ function_rbrace

\* --- parse ---------------------------------------------------------------
\* while (!match(EOF)) left: return p.output;
parse_eof ==
  /\ At("parse", "loop")
  /\ match("EOF")
  /\ Step(current_token_pos, output, Pop, "output",
          Op("return", TRUE, "parse"), copied)

\* append_output(lexeme); append_output("\n"); advance(p);
parse_preprocessor ==
  /\ At("parse", "loop")
  /\ ~match("EOF") /\ match("PREPROCESSOR")
  /\ Step(advance,
          append_output(append_output(output, current_token.lexeme), NL),
          stack, "none", Op("advance", TRUE, "preprocessor"),
          copied \o current_token.lexeme)

parse_function ==
  /\ At("parse", "loop")
  /\ ~match("EOF") /\ ~match("PREPROCESSOR") /\ match("LPAREN")
  /\ Step(current_token_pos, output,
          Call("function_ret",
               Frame("parse_function_declaration", "lparen", 0, "EOF")),
          "none", Op("call", TRUE, "parse_function_declaration"), copied)

\* if (!parse_function_declaration(&p)) { free(p.output); return NULL; }
parse_function_ret ==
  /\ At("parse", "function_ret")
  /\ IF ret = "0"
       THEN Step(current_token_pos, output, Pop, "NULL",
                 Op("return", FALSE, "parse"), copied)
       ELSE Step(current_token_pos, output, Goto("loop"), "none",
                 Op("loop", TRUE, "parse"), copied)

\* Only preprocessor directives or function definitions at top level.
parse_error ==
  /\ At("parse", "loop")
  /\ ~match("EOF") /\ ~match("PREPROCESSOR") /\ ~match("LPAREN")
  /\ Step(current_token_pos, output, Pop, "NULL",
          Op("error", FALSE, "parse"), copied)

parse ==
  \/ parse_eof
  \/ parse_preprocessor
  \/ parse_function
  \/ parse_function_ret
  \/ parse_error

\* --- main ----------------------------------------------------------------
\* TokenList tokens = tokenize(source_code);
main_tokenize ==
  /\ At("main", "tokenize")
  /\ tokens' = tokenize(source)
  /\ stack' = Goto("parse")
  /\ last' = Op("tokenize", TRUE, "main")
  /\ UNCHANGED <<source, current_token_pos, output, ret, result, copied>>

\* char* c_code = parse(tokens);  Parser p = {tokens, 0, NULL, 0, 0}
main_parse ==
  /\ At("main", "parse")
  /\ Step(0, <<>>, Call("parse_ret", Frame("parse", "loop", 0, "EOF")),
          "none", Op("call", TRUE, "parse"), <<>>)

\* if (!c_code) return 1; ... return 0;
main_exit ==
  /\ At("main", "parse_ret")
  /\ result' = ret
  /\ stack' = Pop
  /\ last' = Op("exit", ret # "NULL", "main")
  /\ UNCHANGED <<source, tokens, current_token_pos, output, ret, copied>>

\* ------------------------------------------------------------------------
\* Inputs
\* ------------------------------------------------------------------------
\* Bounds of the explored inputs.
MaxSrc == 4
MaxTop == 3
MaxFragments == 3
MaxRun == 3

SeqsUpTo(S, n) == UNION { [1..k -> S] : k \in 0..n }

RECURSIVE Concat(_)
Concat(ss) == IF ss = <<>> THEN <<>> ELSE Head(ss) \o Concat(Tail(ss))

\* Source text of a sequence of words: one blank after each word, a newline
\* after a preprocessor line (which would otherwise swallow what follows).
RECURSIVE Text(_)
Text(words) ==
  IF words = <<>> THEN <<>>
  ELSE Head(words) \o (IF Head(words)[1] = "#" THEN <<"\n">> ELSE <<" ">>)
         \o Text(Tail(words))

w_lp == <<"(">>
w_rp == <<")">>
w_lb == <<"{">>
w_rb == <<"}">>
w_eq == <<"=">>
w_semi == <<";">>
w_comma == <<",">>
w_a == <<"a">>
w_1 == <<"1">>
w_int == <<"i", "n", "t">>
w_if == <<"i", "f">>
w_for == <<"f", "o", "r">>
w_while == <<"w", "h", "i", "l", "e">>
w_else == <<"e", "l", "s", "e">>
w_pre == <<"#", "d">>

\* Characters of the free-form buffers given to the tokenizer alone.
LexChars == {" ", "\n", "/", "#", "=", "1", "i", "f", "\"", "\\"}

LexSources == SeqsUpTo(LexChars, MaxSrc)

\* Free top-level text: parameter lists, stray tokens, preprocessor lines.
TopWords == {w_lp, w_rp, w_a, w_int, w_comma, w_pre}

TopSources == { Text(ws) : ws \in SeqsUpTo(TopWords, MaxTop) }

\* ( ) a int {
Header == <<w_lp, w_rp, w_a, w_int, w_lb>>

\* #d ( a int , a int ) a int {
HeaderWithParams ==
  <<w_pre, w_lp, w_a, w_int, w_comma, w_a, w_int, w_rp, w_a, w_int, w_lb>>

\* Pieces of function bodies: whole statements, broken ones, block ends.
Fragments ==
  { <<w_1, w_eq, w_a, w_int, w_semi>>,
    <<w_1, w_eq, w_a, w_semi>>,
    <<w_a, w_lb, w_semi>>,
    <<w_lp, w_a, w_comma, w_a, w_rp, w_a, w_semi>>,
    <<w_lp, w_a, w_rp, w_if, w_lb>>,
    <<w_lp, w_a, w_rp, w_while, w_lb>>,
    <<w_rb>>,
    <<w_rb, w_else, w_lb, w_rb>>,
    <<w_int, w_a>> }

BodySources ==
  { Text(Header \o Concat(fs)) : fs \in SeqsUpTo(Fragments, MaxFragments) }
  \cup { Text(HeaderWithParams \o Concat(fs)) : fs \in SeqsUpTo(Fragments, 1) }

\* A statement that opens with '(': a run of tokens, then how it goes on.
RunWords == {w_lp, w_rp, w_a, w_comma, w_if}

Trailers ==
  { <<w_rp, w_if, w_lb, w_rb>>,
    <<w_rp, w_for, w_lb, w_rb>>,
    <<w_rp, w_while, w_lb, w_rb>>,
    <<w_rp, w_if, w_lb, w_rb, w_else, w_lb, w_rb>>,
    <<w_rp, w_a, w_semi>>,
    <<w_rp, w_a>>,
    <<w_lb, w_a, w_rp, w_for, w_semi, w_rb>> }

ParenSources ==
  { Text(Header \o <<w_lp>> \o run \o tr \o <<w_rb>>) :
      run \in SeqsUpTo(RunWords, MaxRun), tr \in Trailers }

ParseSources == TopSources \cup BodySources \cup ParenSources

\* ------------------------------------------------------------------------
\* Specifications
\* ------------------------------------------------------------------------
InitWith(sources) ==
  /\ source \in sources
  /\ tokens = <<>>
  /\ current_token_pos = 0
  /\ output = <<>>
  /\ stack = << Frame("main", "tokenize", 0, "EOF") >>
  /\ ret = "none"
  /\ result = "running"
  /\ last = Op("start", TRUE, "main")
  /\ copied = <<>>

Init == InitWith(ParseSources)

\* Every step from the call of parse to the exit of main.
ParseNext ==
  \/ main_parse
  \/ main_exit
  \/ parse
  \/ parse_function_declaration
  \/ parse_statement
  \/ parse_variable_declaration
  \/ parse_reversed_function_call
  \/ parse_for_loop
  \/ parse_while_loop
  \/ parse_if_statement
  \/ slurp_tokens_until

Next == main_tokenize \/ ParseNext

\* The whole program on parser inputs.
Spec == Init /\ [][Next]_vars

\* main once tokenize has returned, about to call parse.
ParseInit ==
  /\ source \in ParseSources
  /\ tokens = tokenize(source)
  /\ current_token_pos = 0
  /\ output = <<>>
  /\ stack = << Frame("main", "parse", 0, "EOF") >>
  /\ ret = "none"
  /\ result = "running"
  /\ last = Op("tokenize", TRUE, "main")
  /\ copied = <<>>

\* The parser from there on; the program is sequential, so its next step is
\* always taken.
ParseSpec == ParseInit /\ [][ParseNext]_vars /\ WF_vars(ParseNext)

\* The tokenizer alone, on every short buffer over LexChars.
LexInit == InitWith(LexSources)

LexSpec == LexInit /\ [][main_tokenize]_vars

\* ------------------------------------------------------------------------
\* Vocabulary of the properties
\* ------------------------------------------------------------------------
Tokenized == ~At("main", "tokenize")

Kinds(ts) == [i \in 1..Len(ts) |-> ts[i].type]

\* The lexemes of ts separated by single spaces.
RECURSIVE JoinLexemes(_)
JoinLexemes(ts) ==
  IF ts = <<>> THEN <<>>
  ELSE IF Len(ts) = 1 THEN ts[1].lexeme
  ELSE ts[1].lexeme \o <<" ">> \o JoinLexemes(Tail(ts))

\* The lexemes of ts separated by single spaces, none before a COMMA.
RECURSIVE JoinArguments(_)
JoinArguments(ts) ==
  IF ts = <<>> THEN <<>>
  ELSE IF Len(ts) = 1 THEN ts[1].lexeme
  ELSE ts[1].lexeme \o (IF ts[2].type = "COMMA" THEN <<>> ELSE <<" ">>)
         \o JoinArguments(Tail(ts))

Occurrences(ch, text) == Cardinality({ i \in 1..Len(text) : text[i] = ch })

\* Opening minus closing parentheses among tokens[i..j].
ParenBalance(i, j) ==
  Cardinality({ k \in i..j : tokens[k].type = "LPAREN" })
    - Cardinality({ k \in i..j : tokens[k].type = "RPAREN" })

Closes(i, j) == tokens[j].type = "RPAREN" /\ ParenBalance(i, j) = 0

HasMatchingParen(i) == \E j \in (i + 1)..Len(tokens) : Closes(i, j)

\* The index of the ')' that closes the '(' at index i of tokens.
MatchingParen(i) ==
  CHOOSE j \in (i + 1)..Len(tokens) :
    Closes(i, j) /\ \A k \in (i + 1)..(j - 1) : ~Closes(i, k)

ControlParsers == {"parse_for_loop", "parse_while_loop", "parse_if_statement"}

KeywordOf(fn) ==
  CASE fn = "parse_for_loop" -> <<"f", "o", "r">>
    [] fn = "parse_while_loop" -> <<"w", "h", "i", "l", "e">>
    [] fn = "parse_if_statement" -> <<"i", "f">>

\* A control-structure parser stands in its head, entered on the '(' at
\* index Top.start + 1 of tokens.
InControlHead(pc) == Depth > 0 /\ Top.fn \in ControlParsers /\ Top.pc = pc

\* The condition of the statement being parsed holds a nested '(' ... ')'.
NestedCondition ==
  /\ HasMatchingParen(Top.start + 1)
  /\ \E k \in (Top.start + 2)..(MatchingParen(Top.start + 1) - 1) :
       tokens[k].type = "LPAREN"

\* ------------------------------------------------------------------------
\* C1: a control statement whose condition holds a balanced nested group
\* parses, and the emitted condition is the single-space join of all the
\* lexemes between the outer parentheses.  Stated on the head of the
\* statement: the ')' and the keyword are consumed, and the head written
\* carries the whole condition.
\* ------------------------------------------------------------------------
C1_NestedConditionPreserved ==
  [][ /\ (InControlHead("rparen") /\ NestedCondition)
           => (last'.ok /\ stack' = Goto("keyword"))
      /\ (InControlHead("keyword") /\ NestedCondition)
           => /\ last'.ok
              /\ output' = output \o control_head(KeywordOf(Top.fn),
                   JoinLexemes(SubSeq(tokens, Top.start + 2,
                                      MatchingParen(Top.start + 1) - 1)))
    ]_vars

\* ------------------------------------------------------------------------
\* C2: when parse succeeds, the output has as many '{' as '}'.
\* ------------------------------------------------------------------------
Balanced(text) == Occurrences("{", text) = Occurrences("}", text)

\* C2 as claimed: whatever the passthrough statements, conditions and
\* preprocessor lines carry.
C2_BracesBalance == result = "output" => Balanced(output)

NoBraceCopied == Occurrences("{", copied) = 0 /\ Occurrences("}", copied) = 0

\* C2 amended: when parse succeeds and no token text copied into the output
\* (preprocessor lines, names and types, conditions, call arguments,
\* passthrough statements) holds a brace, the output has as many '{' as '}'.
C2_BracesBalanceOfEmitted ==
  (result = "output" /\ NoBraceCopied) => Balanced(output)

C2_Witness ==
  /\ result = "output"
  /\ NoBraceCopied
  /\ Occurrences("{", output) >= 3

\* ------------------------------------------------------------------------
\* C3: lexing is idempotent over the single-space join of the lexemes.
\* ------------------------------------------------------------------------
\* C3 as claimed: every token's lexeme joined, the EOF sentinel's included.
C3_RelexSameKinds ==
  Tokenized => Kinds(tokenize(JoinLexemes(tokens))) = Kinds(tokens)

WithoutSentinel(ts) == SubSeq(ts, 1, Len(ts) - 1)

\* No PREPROCESSOR token has a token between it and the EOF sentinel.
PreprocessorOnlyLast(ts) ==
  \A i \in 1..(Len(ts) - 2) : ts[i].type # "PREPROCESSOR"

\* C3 amended: for a buffer whose PREPROCESSOR token, if any, is the last
\* one before the sentinel, joining the lexemes of the tokens before the
\* sentinel with single spaces and tokenizing that gives the same kinds.
C3_RelexSameKindsAmended ==
  (Tokenized /\ PreprocessorOnlyLast(tokens))
    => Kinds(tokenize(JoinLexemes(WithoutSentinel(tokens)))) = Kinds(tokens)

C3_Witness ==
  /\ Tokenized
  /\ PreprocessorOnlyLast(tokens)
  /\ Len(tokens) >= 3
  /\ tokens[Len(tokens) - 1].type = "PREPROCESSOR"
  /\ tokens[1].lexeme[1] = "\""

\* ------------------------------------------------------------------------
\* C4: the cursor never decreases and stays within [0, count - 1]; every
\* successful consume, and every advance, moves it by exactly one.
\* ------------------------------------------------------------------------
C4_CursorMonotone ==
  [][ /\ current_token_pos' >= current_token_pos
      /\ (last'.op = "consume" /\ last'.ok)
           => current_token_pos' = current_token_pos + 1
      /\ last'.op = "advance" => current_token_pos' = current_token_pos + 1
      /\ Tokenized' => current_token_pos' \in 0..(Len(tokens') - 1)
    ]_vars

C4_Witness ==
  /\ last.op = "consume" /\ last.ok
  /\ current_token_pos = Len(tokens) - 1
  /\ current_token_pos >= 8

\* ------------------------------------------------------------------------
\* C5: tokenize returns a sequence with exactly one EOF token, the last.
\* ------------------------------------------------------------------------
C5_EndsWithOneEof ==
  Tokenized =>
    /\ Len(tokens) >= 1
    /\ tokens[Len(tokens)].type = "EOF"
    /\ \A i \in 1..(Len(tokens) - 1) : tokens[i].type # "EOF"

C5_Witness ==
  /\ Tokenized
  /\ Len(tokens) >= 3
  /\ \E i \in 1..Len(tokens) : tokens[i].type = "UNKNOWN"

\* ------------------------------------------------------------------------
\* C6: a failed consume leaves the cursor and the output alone and returns
\* failure; from a failure on nothing is appended, the cursor stays, every
\* enclosing function returns failure in turn, and parse returns NULL.
\* ------------------------------------------------------------------------
C6_FailurePropagates ==
  [][ /\ (last'.op = "consume" /\ ~last'.ok)
           => /\ current_token_pos' = current_token_pos
              /\ output' = output
              /\ ret' = "0"
      /\ ret = "0"
           => /\ current_token_pos' = current_token_pos
              /\ output' = output
              /\ stack' = Pop
              /\ ret' \in {"0", "NULL"}
      /\ ret = "NULL" => result' = "NULL"
    ]_vars

C6_Witness ==
  /\ result = "NULL"
  /\ last.op = "exit"
  /\ Len(output) > 0
  /\ current_token_pos >= 8

\* ------------------------------------------------------------------------
\* C7: a reversed call ( <run> ) <name> ; is written as "    <name>(<args>);\n"
\* with <args> the lexemes strictly between the matching parentheses, one
\* space between neighbours except none before a COMMA.
\* ------------------------------------------------------------------------
CallEmits ==
  At("parse_reversed_function_call", "semicolon") /\ match("SEMICOLON")

C7_CallArguments ==
  [][ CallEmits =>
        /\ HasMatchingParen(Top.start)
        /\ LET close == MatchingParen(Top.start) IN
           /\ current_token_pos = close + 1
           /\ output' = output
                \o INDENT \o tokens[close + 1].lexeme \o <<"(">>
                \o JoinArguments(SubSeq(tokens, Top.start + 1, close - 1))
                \o <<")", ";", "\n">>
    ]_vars

\* A call just written whose run holds a nested group and a comma.
C7_Witness ==
  /\ At("parse_statement", "return")
  /\ ret = "1"
  /\ last = Op("consume", TRUE, "SEMICOLON")
  /\ tokens[current_token_pos - 2].type = "RPAREN"
  /\ tokens[current_token_pos - 3].type = "RPAREN"
  /\ \E i \in 1..Len(output) : output[i] = ","

\* ------------------------------------------------------------------------
\* C8: parse_statement picks its branch from the current token and the
\* tokens after the matching ')' alone, and an unrecognized statement fails
\* without moving the cursor or writing output.
\* ------------------------------------------------------------------------
\* The branch the claim names for the statement at the cursor.
ClaimedKind ==
  LET i == current_token_pos + 1
      cur == tokens[i]
      closed == cur.type = "LPAREN" /\ HasMatchingParen(i)
      after == tokens[MatchingParen(i) + 1]
  IN
  IF cur.type = "NUMBER" THEN "parse_variable_declaration"
  ELSE IF closed /\ after.type = "KEYWORD" /\ after.lexeme = <<"f", "o", "r">>
    THEN "parse_for_loop"
  ELSE IF closed /\ after.type = "KEYWORD"
          /\ after.lexeme = <<"w", "h", "i", "l", "e">>
    THEN "parse_while_loop"
  ELSE IF closed /\ after.type = "KEYWORD" /\ after.lexeme = <<"i", "f">>
    THEN "parse_if_statement"
  ELSE IF closed /\ after.type = "IDENTIFIER"
          /\ tokens[MatchingParen(i) + 2].type = "SEMICOLON"
    THEN "parse_reversed_function_call"
  ELSE IF cur.type \in {"KEYWORD", "IDENTIFIER"} THEN "passthrough"
  ELSE "error"

C8_StatementDispatch ==
  [][ At("parse_statement", "dispatch") =>
        /\ current_token_pos' = current_token_pos
        /\ output' = output
        /\ IF ClaimedKind = "error"
             THEN stack' = Pop /\ ret' = "0"
           ELSE IF ClaimedKind = "passthrough"
             THEN /\ Len(stack') = Depth + 1
                  /\ stack'[Depth + 1].fn = "slurp_tokens_until"
                  /\ stack'[Depth + 1].end_type = "SEMICOLON"
           ELSE /\ Len(stack') = Depth + 1
                /\ stack'[Depth + 1].fn = ClaimedKind
    ]_vars

\* A control parser just entered on a condition with a nested group.
C8_Witness ==
  /\ last = Op("dispatch", TRUE, "parse_if_statement")
  /\ tokens[current_token_pos + 2].type = "LPAREN"
  /\ tokens[current_token_pos + 3].type = "RPAREN"

\* ------------------------------------------------------------------------
\* C9: parse terminates on every token sequence.  Every iteration of a loop
\* strictly advances the cursor or leaves the loop: the unit of the body
\* loops (a statement) and of the top-level loop (a preprocessor line or a
\* function definition) ends beyond where it began or fails; an iteration of
\* the parameter loop consumes a token or fails; an iteration of slurp's loop
\* advances; an iteration of the parenthesis scan advances or ends the scan.
\* ------------------------------------------------------------------------
Returns(fn) == Depth > 0 /\ Top.fn = fn /\ stack' = Pop /\ ret' = "1"

LoopProgress ==
  /\ Returns("parse_statement") => current_token_pos' > Top.start
  /\ Returns("parse_function_declaration") => current_token_pos' > Top.start
  /\ (At("parse", "loop") /\ match("PREPROCESSOR"))
       => current_token_pos' = current_token_pos + 1
  /\ (At("parse_function_declaration", "args") /\ in_args)
       => (current_token_pos' = current_token_pos + 1 \/ ret' = "0")
  /\ (At("slurp_tokens_until", "loop") /\ Len(stack') = Depth)
       => current_token_pos' = current_token_pos + 1
  /\ (At("parse_reversed_function_call", "scan") /\ stack'[Depth].pc = "scan")
       => (current_token_pos' = current_token_pos + 1 \/ stack'[Depth].level = 0)

C9_Terminates == <>(result # "running") /\ [][LoopProgress]_vars

C9_Witness ==
  /\ result = "output"
  /\ Len(tokens) >= 14
  /\ Occurrences("{", output) >= 3

\* ------------------------------------------------------------------------
\* C10: the KEYWORD a control-structure parser consumes after the
\* condition's ')' is the token the dispatch looked at: it follows the
\* matching ')', and its lexeme is the keyword written to the output.
\* ------------------------------------------------------------------------
C10_KeywordIsLookahead ==
  (InControlHead("keyword") /\ match("KEYWORD")) =>
     /\ current_token_pos + 1 = MatchingParen(Top.start + 1) + 1
     /\ current_token.lexeme = KeywordOf(Top.fn)

====
